---------------------------- MODULE Spec2Model ----------------------------
(***************************************************************************)
(* Model of src/main.py (rename-invoice-pdfs): the filename canonicalizer  *)
(* to_kebab_case, the format detector is_already_formatted, and the batch  *)
(* processor process_pdf_directory with its backend selection.             *)
(*                                                                         *)
(* A string is a sequence of one-character strings.                        *)
(*                                                                         *)
(* pathlib decides two things by the platform: Path.glob matches a pattern *)
(* case-sensitively on posix and ignoring case on nt, and Path.rename onto *)
(* an existing file replaces it on posix and raises FileExistsError on nt. *)
(* The platform is chosen in Init. The two backends are external: a call   *)
(* returns a six-digit date or raises.                                     *)
(***************************************************************************)
EXTENDS Integers, Sequences, FiniteSets, TLC

VARIABLES
    \* ---- the pure functions, applied to one input --------------------
    filename,       \* the argument handed to the functions
    fnpc,           \* which calls have been made on it
    kebab,          \* to_kebab_case(filename)
    kebab2,         \* to_kebab_case(kebab + ".pdf")
    formatted,      \* is_already_formatted(filename)
    \* ---- the batch processor -----------------------------------------
    platform,       \* "posix" or "nt": decides Path.glob's and Path.rename's rules
    disk,           \* the directory: file name -> content (the name it was created under)
    envUrl,         \* os.getenv("OLLAMA_API_URL") is set and non-empty
    envModel,       \* os.getenv("OLLAMA_MODEL") is set and non-empty
    pc,             \* position in main / process_pdf_directory
    client,         \* number of Anthropic clients constructed in this run
    probes,         \* results of the liveness probes made in this run
    pdf_files,      \* the list get_pdf_files returned
    ollama_is_available, \* the local variable of process_pdf_directory
    idx,            \* loop position in pdf_files (1-based)
    log,            \* one record per loop iteration of this and earlier runs
    lines,          \* lines printed in this run
    disk0,          \* the directory as it was when this run started
    renamed,        \* the new names of the renames made so far
    earlier         \* the renames earlier invocations had made when this one started

fnvars == <<filename, fnpc, kebab, kebab2, formatted>>
batchvars == <<platform, disk, envUrl, envModel, pc, client, probes,
               pdf_files, ollama_is_available, idx, log, lines, disk0, renamed,
               earlier>>
vars == <<fnvars, batchvars>>

---------------------------------------------------------------------------
(* Character classes of the regular expressions in main.py                 *)

LowerSeq == <<"a","b","c","d","e","f","g","h","i","j","k","l","m",
              "n","o","p","q","r","s","t","u","v","w","x","y","z">>
UpperSeq == <<"A","B","C","D","E","F","G","H","I","J","K","L","M",
              "N","O","P","Q","R","S","T","U","V","W","X","Y","Z">>
LowerChars == {LowerSeq[i] : i \in 1..26}
UpperChars == {UpperSeq[i] : i \in 1..26}
DigitChars == {"0","1","2","3","4","5","6","7","8","9"}

\* [a-zA-Z0-9]
IsAlnum(c) == c \in LowerChars \cup UpperChars \cup DigitChars
\* [a-z0-9]
IsLowerAlnum(c) == c \in LowerChars \cup DigitChars

\* str.lower() on one character
LowerChar(c) ==
    IF c \in UpperChars
    THEN LowerSeq[CHOOSE i \in 1..26 : UpperSeq[i] = c]
    ELSE c

\* str.lower()
Lower(s) == [i \in 1..Len(s) |-> LowerChar(s[i])]

\* the index of the last "." of s, 0 when there is none (str.rfind, 1-based)
RFindDot(s) ==
    IF \E i \in 1..Len(s) : s[i] = "."
    THEN CHOOSE i \in 1..Len(s) : s[i] = "." /\ \A j \in (i+1)..Len(s) : s[j] # "."
    ELSE 0

\* a plausible slip: the extension is not removed
SplitExtBase_Keep(s) == s

\* os.path.splitext(filename)[0] for a name without directory separators:
\* the extension starts at the last dot, unless only dots precede that dot
\* (leading dots belong to the base name).
SplitExtBase(s) ==
    LET dot == RFindDot(s)
    IN  IF dot > 0 /\ \E i \in 1..(dot-1) : s[i] # "."
        THEN SubSeq(s, 1, dot - 1)
        ELSE s

\* re.sub(r'[^a-zA-Z0-9]', '-', base_name)
ReplaceNonAlnum(s) == [i \in 1..Len(s) |-> IF IsAlnum(s[i]) THEN s[i] ELSE "-"]

\* a plausible slip: kebab.replace('--', '-'), which halves a run of hyphens
RECURSIVE CollapseHyphens_Pairs(_)
CollapseHyphens_Pairs(s) ==
    IF Len(s) <= 1 THEN s
    ELSE IF s[1] = "-" /\ s[2] = "-"
         THEN <<"-">> \o CollapseHyphens_Pairs(Tail(Tail(s)))
         ELSE <<s[1]>> \o CollapseHyphens_Pairs(Tail(s))

\* re.sub(r'-+', '-', kebab)
RECURSIVE CollapseHyphens(_)
CollapseHyphens(s) ==
    IF Len(s) <= 1 THEN s
    ELSE IF s[1] = "-" /\ s[2] = "-"
         THEN CollapseHyphens(Tail(s))
         ELSE <<s[1]>> \o CollapseHyphens(Tail(s))

\* kebab.strip('-')
RECURSIVE StripHyphens(_)
StripHyphens(s) ==
    IF s = <<>> THEN s
    ELSE IF s[1] = "-" THEN StripHyphens(Tail(s))
    ELSE IF s[Len(s)] = "-" THEN StripHyphens(SubSeq(s, 1, Len(s) - 1))
    ELSE s

\* to_kebab_case(filename)
to_kebab_case(f) ==
    Lower(StripHyphens(CollapseHyphens(ReplaceNonAlnum(SplitExtBase(f)))))

\* The part of the pattern after the date and its hyphen, tried at position i
\* of s:   ([a-z0-9]+-)*[a-z0-9]+\.pdf$
\* One segment [a-z0-9]+ ends before position j; then either "-" and the rest
\* again, or ".pdf" and the end of the string. Without re.MULTILINE, "$"
\* matches at the end of the string and also just before a newline that is
\* the last character of the string.
RECURSIVE MatchSegments(_, _)
MatchSegments(s, i) ==
    \E j \in (i+1)..(Len(s)+1) :
        /\ \A k \in i..(j-1) : IsLowerAlnum(s[k])
        /\ \/ /\ j <= Len(s)
              /\ s[j] = "-"
              /\ MatchSegments(s, j + 1)
           \/ /\ j + 3 <= Len(s)
              /\ SubSeq(s, j, j + 3) = <<".", "p", "d", "f">>
              /\ \/ j + 3 = Len(s)
                 \/ j + 4 = Len(s) /\ s[j + 4] = "\n"

\* is_already_formatted(filename):
\* re.match(r'^(\d{6})-([a-z0-9]+-)*[a-z0-9]+\.pdf$', filename.lower())
is_already_formatted(f) ==
    LET s == Lower(f)
    IN  /\ Len(s) >= 7
        /\ \A k \in 1..6 : s[k] \in DigitChars
        /\ s[7] = "-"
        /\ MatchSegments(s, 8)

---------------------------------------------------------------------------
(* The directory and the platform rules of pathlib                          *)

MaxFiles == 2

Date250101 == <<"2","5","0","1","0","1">>
DotPdf == <<".", "p", "d", "f">>

NameA_b   == <<"A", "_", "b">> \o DotPdf             \* "A_b.pdf"
NameAb    == <<"a", " ", "b">> \o DotPdf             \* "a b.pdf"
NameDone  == Date250101 \o <<"-", "a", "-", "b">> \o DotPdf  \* "250101-a-b.pdf"
NameSpec  == <<"_", ".", "P", "D", "F">>             \* "_.PDF"
NameText  == <<"n", ".", "t", "x", "t">>             \* "n.txt"

\* the PDF files a directory is populated from: two names with the same
\* slug, a name already in the canonical form with that slug, and a name
\* without any alphanumeric character, with an upper-case extension
PdfPool == {NameA_b, NameAb, NameDone, NameSpec}

Platforms == {"posix", "nt"}

\* what happens to one file after the detector: the backend returns the
\* date (InvoiceDateString, six digits), or the extraction call raises, or
\* the rename raises an OSError of its own
Responses ==
    { [text |-> Date250101, extractFails |-> FALSE, renameFails |-> FALSE],
      [text |-> Date250101, extractFails |-> TRUE,  renameFails |-> FALSE],
      [text |-> Date250101, extractFails |-> FALSE, renameFails |-> TRUE] }

NoResponse == [text |-> <<>>, extractFails |-> FALSE, renameFails |-> FALSE]

\* the file system compares names exactly on posix, ignoring case on nt
SameName(plat, a, b) == IF plat = "nt" THEN Lower(a) = Lower(b) ELSE a = b

\* the directory entries that name the file `name`
Entries(plat, dsk, name) == {n \in DOMAIN dsk : SameName(plat, n, name)}

Exists(plat, dsk, name) == Entries(plat, dsk, name) # {}

EndsWith(s, suffix) ==
    /\ Len(s) >= Len(suffix)
    /\ SubSeq(s, Len(s) - Len(suffix) + 1, Len(s)) = suffix

\* the pattern "*" + ext of Path.glob: pathlib matches a pattern
\* case-sensitively on posix and ignoring case on nt
GlobMatches(plat, name, ext) ==
    IF plat = "nt" THEN EndsWith(Lower(name), Lower(ext)) ELSE EndsWith(name, ext)

\* the names of seq that match "*" + ext, in order
RECURSIVE SelectNames(_, _, _)
SelectNames(plat, seq, ext) ==
    IF seq = <<>> THEN <<>>
    ELSE (IF GlobMatches(plat, Head(seq), ext) THEN <<Head(seq)>> ELSE <<>>)
         \o SelectNames(plat, Tail(seq), ext)

\* the orders in which a scan may enumerate the directory
ScanOrders(dsk) ==
    {o \in [1..Cardinality(DOMAIN dsk) -> DOMAIN dsk] :
        \A i, j \in 1..Cardinality(DOMAIN dsk) : i # j => o[i] # o[j]}

\* get_pdf_files(directory), the directory being enumerated in order `scan`:
\* list(directory_path.glob("*.pdf")) + list(directory_path.glob("*.PDF"))
get_pdf_files(plat, scan) ==
    SelectNames(plat, scan, DotPdf) \o SelectNames(plat, scan, <<".", "P", "D", "F">>)

\* Path.rename(new_path) when it succeeds: the entry moves to the new name,
\* replacing the entry that had it
MoveEntry(dsk, src, dst) ==
    [n \in (DOMAIN dsk \ {src}) \cup {dst} |-> IF n = dst THEN dsk[src] ELSE dsk[n]]

\* new_filename = f"{invoice_date}-{kebab_name}.pdf"
NewFilename(name, invoice_date) ==
    invoice_date \o <<"-">> \o to_kebab_case(name) \o DotPdf

\* the entries of other files that have the name new_path
TargetTaken(plat, dsk, name, target) ==
    Entries(plat, dsk, target) \ Entries(plat, dsk, name)

\* pdf_path.rename(new_path) raises: an OSError of its own, or on nt
\* FileExistsError for a target that exists; on posix an existing target is
\* replaced silently
RenameRaises(plat, dsk, name, target, oserror) ==
    oserror \/ (plat = "nt" /\ TargetTaken(plat, dsk, name, target) # {})

\* ollama_is_available selects the variant for a file that is not skipped
BackendFor(avail) == IF avail THEN "local" ELSE "cloud"

\* The body of the loop after the detector, lines 186-201: the extraction
\* opens the file (which raises when it is gone) and asks the selected
\* backend; rename_pdf_with_date renames; any exception is printed and the
\* loop goes on. Gives the resulting directory and what happened.
ExtractAndRename(plat, dsk, name, avail, resp) ==
    LET target == NewFilename(name, resp.text)
        src == Entries(plat, dsk, name)
        collision == /\ src # {}
                     /\ ~resp.extractFails
                     /\ TargetTaken(plat, dsk, name, target) # {}
    IN  IF src = {} \/ resp.extractFails
           \/ RenameRaises(plat, dsk, name, target, resp.renameFails)
        THEN [disk |-> dsk, outcome |-> "Errored", backend |-> BackendFor(avail),
              target |-> <<>>, collision |-> collision]
        ELSE [disk |-> MoveEntry(dsk, CHOOSE n \in src : TRUE, target),
              outcome |-> "Renamed", backend |-> BackendFor(avail),
              target |-> target, collision |-> collision]

\* a plausible slip: the "continue" of the skip branch is missing
ProcessOne_NoSkip(plat, dsk, name, avail, resp) ==
    ExtractAndRename(plat, dsk, name, avail, resp)

\* One iteration of the loop of process_pdf_directory on pdf_path.name = name,
\* lines 180-201: a name already formatted is skipped, nothing is called.
ProcessOne(plat, dsk, name, avail, resp) ==
    IF is_already_formatted(name)
    THEN [disk |-> dsk, outcome |-> "Skipped", backend |-> "none",
          target |-> <<>>, collision |-> FALSE]
    ELSE ExtractAndRename(plat, dsk, name, avail, resp)

\* the backend answers only for a file whose extraction reaches it: not for
\* a skipped file, nor for one that cannot be opened
ResponsesFor(plat, dsk, name) ==
    IF is_already_formatted(name) \/ ~Exists(plat, dsk, name)
    THEN {NoResponse}
    ELSE Responses

---------------------------------------------------------------------------
(* The program: main -> process_pdf_directory                               *)

\* a directory holds nothing at all, or at most MaxFiles PDF files beside a
\* file that is no PDF
Directories ==
    {{}} \cup {S \cup {NameText} : S \in {T \in SUBSET PdfPool : Cardinality(T) <= MaxFiles}}

Init ==
    /\ filename = <<>>
    /\ fnpc = "off"
    /\ kebab = <<>>
    /\ kebab2 = <<>>
    /\ formatted = FALSE
    /\ platform \in Platforms
    /\ \E S \in Directories : disk = [n \in S |-> n]
    /\ envUrl \in BOOLEAN
    /\ envModel \in BOOLEAN
    /\ pc = "shell"
    /\ client = 0
    /\ probes = <<>>
    /\ pdf_files = <<>>
    /\ ollama_is_available = FALSE
    /\ idx = 0
    /\ log = <<>>
    /\ lines = 0
    /\ disk0 = disk
    /\ renamed = {}
    /\ earlier = {}

\* main(): parse_arguments(), then process_pdf_directory(args.directory)
StartProgram ==
    /\ pc \in {"shell", "exit0", "killed"}
    /\ pc' = "client"
    /\ client' = 0
    /\ probes' = <<>>
    /\ pdf_files' = <<>>
    /\ ollama_is_available' = FALSE
    /\ idx' = 0
    /\ log' = <<>>
    /\ lines' = 0
    /\ disk0' = disk
    /\ earlier' = renamed
    /\ UNCHANGED <<fnvars, platform, disk, envUrl, envModel, renamed>>

\* client = get_remote_ai_client()
GetRemoteAiClient ==
    /\ pc = "client"
    /\ client' = client + 1
    /\ pc' = "list"
    /\ UNCHANGED <<fnvars, platform, disk, envUrl, envModel, probes,
                   pdf_files, ollama_is_available, idx, log, lines, disk0, renamed,
                   earlier>>

\* pdf_files = get_pdf_files(directory), one line is printed, and the
\* function goes on at `empty` when there is no file
ListFiles(empty) ==
    /\ pc = "list"
    /\ \E scan \in ScanOrders(disk) : pdf_files' = get_pdf_files(platform, scan)
    /\ lines' = lines + 1
    /\ pc' = IF pdf_files' = <<>> THEN empty ELSE "select"
    /\ UNCHANGED <<fnvars, platform, disk, envUrl, envModel, client,
                   probes, ollama_is_available, idx, log, disk0, renamed,
                   earlier>>

\* a plausible slip: no "return" after "No PDF files found"
GetPdfFiles_NoReturn == ListFiles("select")

\* lines 164-170: without files, "No PDF files found" is printed and the
\* function returns
GetPdfFiles == ListFiles("exit0")

\* what GET {OLLAMA_API_URL}/version may do at any moment: answer 200,
\* answer another status, or fail with an exception (server down, timeout)
ProbeOutcomes == {"200", "500", "exception"}

\* is_ollama_running(): True for status 200, False for any other status and
\* for any exception of the request
is_ollama_running(outcome) == outcome = "200"

\* ollama_is_available = OLLAMA_API_URL and OLLAMA_MODEL and is_ollama_running()
\* ("and" calls is_ollama_running only when both variables are set)
SelectBackend ==
    /\ pc = "select"
    /\ IF envUrl /\ envModel
       THEN \E outcome \in ProbeOutcomes :
               /\ probes' = Append(probes, outcome)
               /\ ollama_is_available' = is_ollama_running(outcome)
       ELSE /\ probes' = probes
            /\ ollama_is_available' = FALSE
    /\ idx' = 1
    /\ pc' = "loop"
    /\ UNCHANGED <<fnvars, platform, disk, envUrl, envModel, client,
                   pdf_files, log, lines, disk0, renamed, earlier>>

\* one iteration of "for pdf_path in pdf_files" with the variant chosen by
\* avail, the loop ending after the last file
LoopIteration(avail) ==
    /\ pc = "loop"
    /\ idx <= Len(pdf_files)
    /\ \E resp \in ResponsesFor(platform, disk, pdf_files[idx]) :
         LET r == ProcessOne(platform, disk, pdf_files[idx], avail, resp)
         IN  /\ disk' = r.disk
             /\ log' = Append(log, [name |-> pdf_files[idx], outcome |-> r.outcome,
                                    backend |-> r.backend, target |-> r.target,
                                    collision |-> r.collision, resp |-> resp])
             /\ renamed' = IF r.outcome = "Renamed"
                           THEN renamed \cup {r.target}
                           ELSE renamed
    /\ lines' = lines + 1
    /\ idx' = idx + 1
    /\ pc' = IF idx = Len(pdf_files) THEN "exit0" ELSE "loop"
    /\ UNCHANGED <<fnvars, platform, envUrl, envModel, client, probes,
                   pdf_files, ollama_is_available, disk0, earlier>>

\* a plausible slip: the availability is evaluated again for every file
ProcessFile_Reprobe ==
    \E now \in ProbeOutcomes :
        LoopIteration(envUrl /\ envModel /\ is_ollama_running(now))

\* the loop body: "if ollama_is_available:" reads the variable set before
\* the loop
ProcessFile == LoopIteration(ollama_is_available)

\* the process is interrupted (KeyboardInterrupt, kill): "except Exception"
\* does not catch it
Interrupt ==
    /\ pc \in {"client", "list", "select", "loop"}
    /\ pc' = "killed"
    /\ client' = 0
    /\ probes' = <<>>
    /\ pdf_files' = <<>>
    /\ ollama_is_available' = FALSE
    /\ idx' = 0
    /\ log' = <<>>
    /\ lines' = 0
    /\ UNCHANGED <<fnvars, platform, disk, envUrl, envModel, disk0,
                   renamed, earlier>>

Next ==
    \/ StartProgram
    \/ GetRemoteAiClient
    \/ GetPdfFiles
    \/ SelectBackend
    \/ ProcessFile
    \/ Interrupt

Spec == Init /\ [][Next]_vars

---------------------------------------------------------------------------
(* Claims about the batch processor (checked under Spec)                    *)

\* the outcomes of the loop over `files`, started on directory dsk, the
\* i-th file getting response resps[i]
RECURSIVE LoopOutcomes(_, _, _, _, _)
LoopOutcomes(plat, dsk, files, avail, resps) ==
    IF files = <<>> THEN <<>>
    ELSE LET r == ProcessOne(plat, dsk, Head(files), avail, Head(resps))
         IN  <<r.outcome>> \o LoopOutcomes(plat, r.disk, Tail(files), avail, Tail(resps))

\* the responses of this run so far, the one of iteration i succeeding
ResponsesHad(i) ==
    [k \in 1..Len(log) |->
        IF k = i
        THEN [text |-> log[k].resp.text, extractFails |-> FALSE, renameFails |-> FALSE]
        ELSE log[k].resp]

\* C1: a file renamed to <six digits>-<slug>.pdf by an earlier run is skipped
\* by every later run (which so performs no rename on it), whatever its
\* original name was.
C1_RoundTrip ==
    \A i \in 1..Len(log) : log[i].name \in earlier => log[i].outcome = "Skipped"

\* C2: when the extraction or the rename of file i raises, file i is Errored,
\* the loop still visits every later file, each of them reaches exactly one
\* terminal state, the one it would have reached had file i not failed, and
\* the run ends normally.
C2_FailureIsolation ==
    \A i \in 1..Len(log) :
        (log[i].resp.extractFails \/ log[i].resp.renameFails) =>
            /\ log[i].outcome = "Errored"
            /\ pc \in {"loop", "exit0"}
            /\ idx = Len(log) + 1
            /\ pc = "exit0" <=> Len(log) = Len(pdf_files)
            /\ \A j \in (i+1)..Len(log) :
                  /\ log[j].outcome \in {"Skipped", "Renamed", "Errored"}
                  /\ \A k \in 1..Len(log) : k # j => log[k].name # log[j].name
                  /\ log[j].outcome =
                        LoopOutcomes(platform, disk0, SubSeq(pdf_files, 1, Len(log)),
                                     ollama_is_available, ResponsesHad(i))[j]

Contents(dsk) == {dsk[n] : n \in DOMAIN dsk}

\* C3: a rename whose target exists replaces nothing: the file is Errored
\* and stays at its old path; the directory holds the same number of files
\* with the same contents during and after a run as before it.
C3_CollisionIsError ==
    /\ \A i \in 1..Len(log) : log[i].collision => log[i].outcome = "Errored"
    /\ Cardinality(DOMAIN disk) = Cardinality(DOMAIN disk0)
    /\ Contents(disk) = Contents(disk0)

\* C4 as claimed: a run on a directory without PDF files prints one line,
\* renames nothing, calls no backend, and constructs no cloud client and
\* makes no probe; client and probe come only after a PDF file was found.
C4_Original ==
    /\ (pc = "exit0" /\ pdf_files = <<>>) =>
          /\ lines = 1
          /\ disk = disk0
          /\ log = <<>>
          /\ probes = <<>>
          /\ client = 0
    /\ (client > 0 \/ probes # <<>> \/ log # <<>>) => pdf_files # <<>>

\* C4 amended: a run on a directory without PDF files prints one line,
\* renames nothing, calls no backend and makes no probe; the probe and the
\* backend calls come only after a PDF file was found. The cloud client is
\* constructed once at the start of every run, before the directory is
\* scanned.
C4_EmptyDirectory ==
    /\ (pc = "exit0" /\ pdf_files = <<>>) =>
          /\ lines = 1
          /\ disk = disk0
          /\ log = <<>>
          /\ probes = <<>>
    /\ (probes # <<>> \/ log # <<>>) => pdf_files # <<>>
    /\ pc \in {"list", "select", "loop", "exit0"} => client = 1

\* C4 witness: a run with the local backend configured has returned from a
\* directory that holds a file but no PDF.
C4_Witness ==
    /\ pc = "exit0"
    /\ pdf_files = <<>>
    /\ envUrl /\ envModel
    /\ DOMAIN disk = {NameText}

\* the variant the selection policy names
PolicyBackend ==
    IF envUrl /\ envModel /\ probes = <<"200">> THEN "local" ELSE "cloud"

\* C5: the variant is chosen once before the loop: local exactly when both
\* variables are configured and the probe answered 200; every file that is
\* not skipped goes to that variant.
C5_BackendFixed ==
    pc \in {"loop", "exit0"} /\ pdf_files # <<>> =>
        /\ Len(probes) <= 1
        /\ ollama_is_available <=> (envUrl /\ envModel /\ probes = <<"200">>)
        /\ \A i \in 1..Len(log) :
              log[i].outcome # "Skipped" => log[i].backend = PolicyBackend

\* C5 witness: two files were handed to the local variant in one run, and
\* (another reachable state) a failed probe left a run on the cloud variant.
C5_Witness ==
    /\ pc = "exit0"
    /\ ollama_is_available
    /\ \E i, j \in 1..Len(log) :
          /\ i < j
          /\ log[i].backend = "local"
          /\ log[j].backend = "local"

\* C9: the iteration on a file whose name is already formatted calls no
\* backend and renames nothing: the directory is unchanged and the
\* iteration is recorded as Skipped.
C9_SkipFrame ==
    [][ ( /\ pc = "loop"
          /\ idx <= Len(pdf_files)
          /\ is_already_formatted(pdf_files[idx])
          /\ idx' = idx + 1 )
        => /\ disk' = disk
           /\ Len(log') = Len(log) + 1
           /\ log'[Len(log')].outcome = "Skipped"
           /\ log'[Len(log')].backend = "none" ]_vars

\* C9 witness: a formatted file was skipped after another file of the run
\* had been renamed, and is still in the directory with its content.
C9_Witness ==
    /\ \E i, j \in 1..Len(log) :
          /\ i < j
          /\ log[i].outcome = "Renamed"
          /\ log[j].outcome = "Skipped"
          /\ log[j].name = NameDone
    /\ NameDone \in DOMAIN disk
    /\ disk[NameDone] = NameDone

\* C10: during a run every file at a position not yet processed is in the
\* directory under its original path with its original content; a later run
\* skips the files an earlier (possibly interrupted) run renamed.
C10_LaterFilesUntouched ==
    /\ pc = "loop" =>
          \A j \in idx..Len(pdf_files) :
              /\ pdf_files[j] \in DOMAIN disk
              /\ disk[pdf_files[j]] = disk0[pdf_files[j]]
    /\ \A i \in 1..Len(log) :
          log[i].name \in earlier => log[i].outcome = "Skipped"

---------------------------------------------------------------------------
(* Inputs of the pure functions: a name is head \o body \o tail, the body   *)
(* ranging over every string of FnAlphabet up to MaxLen characters.         *)

MaxLen == 3

FnAlphabet == {"a", "B", "7", ".", "-", " ", "_"}

Strings(n) == UNION {[1..k -> FnAlphabet] : k \in 0..n}

Heads ==
    { <<>>,
      Date250101 \o <<"-">>,                   \* six digits and the hyphen
      <<"2","5","0","1","0","-">>,            \* five digits
      Date250101 \o <<"7", "-">>,              \* seven digits
      <<"x">> \o Date250101 \o <<"-">> }       \* something before the digits

Tails ==
    { <<>>,
      DotPdf,
      <<".", "P", "D", "F">>,
      DotPdf \o <<"\n">>,                      \* a newline after the suffix
      DotPdf \o <<"x">> }                      \* something else after the suffix

\* the names the documentation of the detector mentions
ExAcme     == Date250101 \o <<"-","a","c","m","e","-","c","o","r","p","-","m","a","r","c","h">> \o DotPdf
ExUpper    == Date250101 \o <<"-","A","B","C">> \o DotPdf
ExInvoice  == <<"i","n","v","o","i","c","e">> \o DotPdf
ExFiveDig  == <<"2","5","0","1","0","-","a","b","c">> \o DotPdf
ExNoSlug   == Date250101 \o <<"-">> \o DotPdf
ExDouble   == Date250101 \o <<"-","-","a">> \o DotPdf
ExTrailing == Date250101 \o <<"-","a","-">> \o DotPdf
Examples == {ExAcme, ExUpper, ExInvoice, ExFiveDig, ExNoSlug, ExDouble, ExTrailing}

FnInputs ==
    {h \o b \o t : h \in Heads, b \in Strings(MaxLen), t \in Tails} \cup Examples

---------------------------------------------------------------------------
(* The batch processor is idle while the pure functions are exercised.      *)

BatchIdle ==
    /\ platform = "posix"
    /\ disk = <<>>
    /\ envUrl = FALSE
    /\ envModel = FALSE
    /\ pc = "off"
    /\ client = 0
    /\ probes = <<>>
    /\ pdf_files = <<>>
    /\ ollama_is_available = FALSE
    /\ idx = 0
    /\ log = <<>>
    /\ lines = 0
    /\ disk0 = <<>>
    /\ renamed = {}
    /\ earlier = {}

InitFn ==
    /\ filename \in FnInputs
    /\ fnpc = "input"
    /\ kebab = <<>>
    /\ kebab2 = <<>>
    /\ formatted = FALSE
    /\ BatchIdle

\* kebab_name = to_kebab_case(filename)
CallToKebabCase ==
    /\ fnpc = "input"
    /\ kebab' = to_kebab_case(filename)
    /\ fnpc' = "kebab"
    /\ UNCHANGED <<filename, kebab2, formatted, batchvars>>

\* to_kebab_case applied to a name built from its own result
CallToKebabCaseAgain ==
    /\ fnpc = "kebab"
    /\ kebab2' = to_kebab_case(kebab \o DotPdf)
    /\ fnpc' = "again"
    /\ UNCHANGED <<filename, kebab, formatted, batchvars>>

\* is_already_formatted(filename)
CallIsAlreadyFormatted ==
    /\ fnpc = "again"
    /\ formatted' = is_already_formatted(filename)
    /\ fnpc' = "done"
    /\ UNCHANGED <<filename, kebab, kebab2, batchvars>>

NextFn ==
    \/ CallToKebabCase
    \/ CallToKebabCaseAgain
    \/ CallIsAlreadyFormatted

SpecFn == InitFn /\ [][NextFn]_vars

---------------------------------------------------------------------------
(* Claims about the pure functions (checked under SpecFn)                   *)

KebabChars == LowerChars \cup DigitChars \cup {"-"}

NoDoubleHyphen(s) == \A i \in 1..(Len(s) - 1) : ~(s[i] = "-" /\ s[i+1] = "-")

NoEdgeHyphen(s) == s # <<>> => (s[1] # "-" /\ s[Len(s)] # "-")

\* C6: for every input filename, to_kebab_case(filename) contains only
\* characters of [a-z0-9-], neither starts nor ends with "-", and contains
\* no "--".
C6_KebabShape ==
    fnpc \in {"kebab", "again", "done"} =>
        /\ \A i \in 1..Len(kebab) : kebab[i] \in KebabChars
        /\ NoEdgeHyphen(kebab)
        /\ NoDoubleHyphen(kebab)

\* C6 witness: a name with an upper-case letter and two adjacent special
\* characters between alphanumerics has been canonicalized to a slug that
\* holds a hyphen.
C6_Witness ==
    /\ fnpc = "kebab"
    /\ \E i \in 1..Len(filename) : filename[i] \in UpperChars
    /\ \E i \in 2..(Len(filename) - 2) :
          /\ IsAlnum(filename[i-1])
          /\ ~IsAlnum(filename[i]) /\ ~IsAlnum(filename[i+1])
          /\ IsAlnum(filename[i+2])
    /\ \E i \in 1..Len(kebab) : kebab[i] = "-"

\* x is a non-empty string of lower-case alphanumerics and hyphens
IsSlugAlphabet(x) ==
    /\ x # <<>>
    /\ \A i \in 1..Len(x) : x[i] \in KebabChars

\* C7 as claimed: for every non-empty x of lower-case alphanumerics and
\* hyphens, hyphen-only strings included,
\* to_kebab_case(to_kebab_case(x) + ".pdf") = to_kebab_case(x).
C7_Original ==
    (fnpc \in {"again", "done"} /\ IsSlugAlphabet(filename)) => kebab2 = kebab

\* C7 amended: the same for every such x that holds at least one
\* alphanumeric character (its slug is not empty).
C7_Idempotent ==
    ( /\ fnpc \in {"again", "done"}
      /\ IsSlugAlphabet(filename)
      /\ \E i \in 1..Len(filename) : IsAlnum(filename[i]) )
    => kebab2 = kebab

\* C7 witness: the round trip was made on an x with hyphen runs around an
\* alphanumeric, whose slug differs from x.
C7_Witness ==
    /\ fnpc = "again"
    /\ IsSlugAlphabet(filename)
    /\ ~NoDoubleHyphen(filename)
    /\ kebab # <<>>
    /\ kebab # filename
    /\ kebab2 = kebab

\* The documented acceptance set, compared case-insensitively over the whole
\* string: six digits, a hyphen, non-empty alphanumeric segments joined by
\* single hyphens, then ".pdf", nothing before or after.
CanonicalName(f) ==
    LET s == Lower(f)
        n == Len(s)
    IN  /\ n >= 12
        /\ \A k \in 1..6 : s[k] \in DigitChars
        /\ s[7] = "-"
        /\ SubSeq(s, n - 3, n) = DotPdf
        /\ LET mid == SubSeq(s, 8, n - 4)
           IN  /\ mid # <<>>
               /\ \A i \in 1..Len(mid) : mid[i] \in KebabChars
               /\ NoEdgeHyphen(mid)
               /\ NoDoubleHyphen(mid)

\* C8: is_already_formatted(f) is true exactly for the names of the
\* documented acceptance set; the named examples are accepted and rejected
\* as listed.
C8_AcceptanceSet ==
    fnpc = "done" =>
        /\ formatted <=> CanonicalName(filename)
        /\ filename \in {ExAcme, ExUpper} => formatted
        /\ filename \in {ExInvoice, ExFiveDig, ExNoSlug, ExDouble, ExTrailing}
              => ~formatted

=============================================================================
